---------------------------- MODULE Spec2Model ----------------------------
(***************************************************************************)
(* 2-bit ADPCM codec of atomic14/ch32v003-audio.                           *)
(*                                                                         *)
(*   encode_2bit_adpcm   scripts/wav_to_adpcm_c.py                         *)
(*   decode_2bit_adpcm   scripts/adpcm_2bit_decoder.py                     *)
(*                                                                         *)
(* Spec        encodes one bounded sample sequence, writes the bytes to    *)
(*             the .raw file, and decodes that file, one loop iteration    *)
(*             per step.                                                   *)
(* SpecStream  runs the quantizer part of either loop body over an         *)
(*             unbounded input; the output buffers are not accumulated.    *)
(* SpecSat     as SpecStream, with an input that first is free and then    *)
(*             keeps driving the predictor upwards, under weak fairness.   *)
(* SpecCalls   a bounded series of calls of either function.               *)
(* SpecConst   the encoder on an unbounded constant input, under weak      *)
(*             fairness.                                                   *)
(* SpecMidi    midi_to_buzzer_c main from the note list to the rows.       *)
(* SpecCompare compare_audio main on two small signals.                    *)
(***************************************************************************)
EXTENDS Integers, Sequences, FiniteSets, TLC

VARIABLES
    pc,               \* position of the run
    audio_data,       \* argument of encode_2bit_adpcm
    pos,              \* number of samples the encoder's for loop has consumed
    enc,              \* encoder: predictor, step_index, encoded, current_byte, sample_in_byte
    trace,            \* history: the encoder's locals at the end of each iteration
    raw,              \* content of the .raw file
    dec,              \* decoder: predictor, step_index, decoded, byte_index, i
    dtrace,           \* history: the decoder's locals at the end of each inner iteration
    pcm_data,         \* frames written to the output WAV
    calls,            \* history: the finished calls of either function, with argument and result
    midi,             \* midi_to_buzzer_c main: its locals from the note list on
    cmp               \* compare_audio main: its locals

vars == <<pc, audio_data, pos, enc, trace, raw, dec, dtrace, pcm_data, calls, midi, cmp>>

----------------------------------------------------------------------------
(* Bounds of the model *)

\* longest sample sequence handed to the encoder in Spec
MaxLen == 5

\* sample values the bounded sequences of Spec are built from
Samples == {0, 128, 133, 140, 255}

\* sample values that keep an unbounded stream going in SpecStream and SpecSat
DriveSamples == {0, 255}

----------------------------------------------------------------------------
(* Constants of the format *)

step_table == <<2, 3, 4, 5, 6, 8, 10, 13, 16, 20, 25, 32, 40, 50, 63, 80>>

index_table == <<-1, -1, 2, 2>>

InitPredictor == 128

InitStepIndex == 0

SampleValues == 0..255

Codes == 0..3

\* Python list indexing, 0-based
At(table, k) == table[k + 1]

\* abs, max and min of Python
Abs(x) == IF x < 0 THEN 0 - x ELSE x

Max(a, b) == IF a >= b THEN a ELSE b

Min(a, b) == IF a <= b THEN a ELSE b

----------------------------------------------------------------------------
(* Integer bit operations on non-negative integers *)

RECURSIVE Pow2(_)
Pow2(n) == IF n = 0 THEN 1 ELSE 2 * Pow2(n - 1)

RECURSIVE BitOr(_, _)
BitOr(a, b) ==
    IF a = 0 THEN b
    ELSE IF b = 0 THEN a
    ELSE (IF (a % 2 = 1) \/ (b % 2 = 1) THEN 1 ELSE 0) + 2 * BitOr(a \div 2, b \div 2)

RECURSIVE BitAnd(_, _)
BitAnd(a, b) ==
    IF a = 0 \/ b = 0 THEN 0
    ELSE (IF (a % 2 = 1) /\ (b % 2 = 1) THEN 1 ELSE 0) + 2 * BitAnd(a \div 2, b \div 2)

ShiftLeft(a, n) == a * Pow2(n)

ShiftRight(a, n) == a \div Pow2(n)

----------------------------------------------------------------------------
(* encode_2bit_adpcm: the loop body *)

\* faulty variant: diff = 0 taken as a negative difference
QuantizeCode_ZeroIsNegative(diff, step) ==
    IF diff < (0 - step) - (step \div 2) THEN 2
    ELSE IF diff <= 0 THEN 0
    ELSE IF diff < step + (step \div 2) THEN 1
    ELSE 3

\* faulty variant: the outer thresholds compared with <= and > instead of < and >=
QuantizeCode_InclusiveThreshold(diff, step) ==
    IF diff <= (0 - step) - (step \div 2) THEN 2
    ELSE IF diff < 0 THEN 0
    ELSE IF diff <= step + (step \div 2) THEN 1
    ELSE 3

\* if / elif chain choosing the code from diff and step
QuantizeCode(diff, step) ==
    IF diff < (0 - step) - (step \div 2) THEN 2
    ELSE IF diff < 0 THEN 0
    ELSE IF diff < step + (step \div 2) THEN 1
    ELSE 3

\* faulty variant: first sample in the low bit pair
EncShift_LsbFirst(sample_in_byte) == sample_in_byte * 2

EncShift(sample_in_byte) == 6 - (sample_in_byte * 2)

EncPack(current_byte, code, shift) == BitOr(current_byte, ShiftLeft(code, shift))

\* faulty variant: code 2 moves one step only
EncDelta_SingleStep(code, step) ==
    IF code = 0 THEN 0 - step
    ELSE IF code = 1 THEN step
    ELSE IF code = 2 THEN 0 - step
    ELSE step * 2

EncDelta(code, step) ==
    IF code = 0 THEN 0 - step
    ELSE IF code = 1 THEN step
    ELSE IF code = 2 THEN (0 - step) * 2
    ELSE step * 2

\* faulty variant: the upper clamp left out
EncPredictor_NoUpperClamp(predictor, delta) ==
    LET new_predictor == predictor + delta
    IN  IF new_predictor < 0 THEN 0 ELSE new_predictor

EncPredictor(predictor, delta) ==
    LET new_predictor == predictor + delta
    IN  IF new_predictor < 0 THEN 0
        ELSE IF new_predictor > 255 THEN 255
        ELSE new_predictor

\* faulty variant: codes 0 and 1 leave the step index where it is
EncStepIndex_NoDecay(step_index, code) ==
    LET next_index == step_index + (IF code >= 2 THEN 2 ELSE 0)
    IN  IF next_index < 0 THEN 0
        ELSE IF next_index > 15 THEN 15
        ELSE next_index

EncStepIndex(step_index, code) ==
    LET next_index == step_index + At(index_table, code)
    IN  IF next_index < 0 THEN 0
        ELSE IF next_index > 15 THEN 15
        ELSE next_index

\* the locals of one iteration, as they stand at its end
EncLocals(e, sample) ==
    LET diff  == sample - e.predictor
        step  == At(step_table, e.step_index)
        code  == QuantizeCode(diff, step)
        shift == EncShift(e.sample_in_byte)
        delta == EncDelta(code, step)
    IN  [sample |-> sample, diff |-> diff, step |-> step, code |-> code,
         shift |-> shift, delta |-> delta,
         predictor |-> EncPredictor(e.predictor, delta),
         step_index |-> EncStepIndex(e.step_index, code)]

\* the quantizer part of one iteration: predictor and step_index only
EncAdvance(e, sample) ==
    LET l == EncLocals(e, sample)
    IN  [e EXCEPT !.predictor = l.predictor, !.step_index = l.step_index]

\* one whole iteration of the for loop
EncIteration(e, sample) ==
    LET l      == EncLocals(e, sample)
        packed == EncPack(e.current_byte, l.code, l.shift)
        filled == e.sample_in_byte + 1
    IN  IF filled >= 4
        THEN [predictor |-> l.predictor, step_index |-> l.step_index,
              encoded |-> Append(e.encoded, packed),
              current_byte |-> 0, sample_in_byte |-> 0]
        ELSE [predictor |-> l.predictor, step_index |-> l.step_index,
              encoded |-> e.encoded,
              current_byte |-> packed, sample_in_byte |-> filled]

\* faulty variant: the final byte appended also when it holds no sample
EncResult_AlwaysFlush(e) == Append(e.encoded, e.current_byte)

\* after the loop: the final partly filled byte, and the returned bytes
EncResult(e) ==
    IF e.sample_in_byte > 0 THEN Append(e.encoded, e.current_byte) ELSE e.encoded

----------------------------------------------------------------------------
(* decode_2bit_adpcm: the inner loop body *)

DecShift(i) == 6 - (i * 2)

DecExtract(byte_val, shift) == BitAnd(ShiftRight(byte_val, shift), 3)

\* faulty variant: code 3 decoded as three steps
DecDelta_TripleStep(code, step) ==
    IF code = 0 THEN 0 - step
    ELSE IF code = 1 THEN step
    ELSE IF code = 2 THEN (0 - step) * 2
    ELSE step * 3

DecDelta(code, step) ==
    IF code = 0 THEN 0 - step
    ELSE IF code = 1 THEN step
    ELSE IF code = 2 THEN (0 - step) * 2
    ELSE step * 2

\* faulty variant: the predictor kept as an unsigned byte that wraps
DecPredictor_Wraps(predictor, delta) == (predictor + delta) % 256

DecPredictor(predictor, delta) ==
    LET new_predictor == predictor + delta
    IN  IF new_predictor < 0 THEN 0
        ELSE IF new_predictor > 255 THEN 255
        ELSE new_predictor

\* faulty variant: the decoder adapts by +1 where the encoder adapts by +2
DecStepIndex_SlowAdapt(step_index, code) ==
    LET next_index == step_index + (IF code >= 2 THEN 1 ELSE 0 - 1)
    IN  IF next_index < 0 THEN 0
        ELSE IF next_index > 15 THEN 15
        ELSE next_index

DecStepIndex(step_index, code) ==
    LET next_index == step_index + At(index_table, code)
    IN  IF next_index < 0 THEN 0
        ELSE IF next_index > 15 THEN 15
        ELSE next_index

\* the locals of one inner iteration for a given code, as they stand at its end
DecLocals(d, code) ==
    LET step  == At(step_table, d.step_index)
        delta == DecDelta(code, step)
    IN  [code |-> code, step |-> step, delta |-> delta,
         predictor |-> DecPredictor(d.predictor, delta),
         step_index |-> DecStepIndex(d.step_index, code)]

\* the quantizer part of one inner iteration: predictor and step_index only
DecAdvance(d, code) ==
    LET l == DecLocals(d, code)
    IN  [d EXCEPT !.predictor = l.predictor, !.step_index = l.step_index]

\* one whole inner iteration: code i of byte byte_index of compressed_data
DecIteration(d, compressed_data) ==
    LET byte_val == At(compressed_data, d.byte_index)
        code     == DecExtract(byte_val, DecShift(d.i))
        l        == DecLocals(d, code)
    IN  [predictor |-> l.predictor, step_index |-> l.step_index,
         decoded |-> Append(d.decoded, l.predictor),
         byte_index |-> IF d.i = 3 THEN d.byte_index + 1 ELSE d.byte_index,
         i |-> IF d.i = 3 THEN 0 ELSE d.i + 1]

----------------------------------------------------------------------------
(* State after construction *)

EncInit ==
    [predictor |-> InitPredictor, step_index |-> InitStepIndex,
     encoded |-> <<>>, current_byte |-> 0, sample_in_byte |-> 0]

DecInit ==
    [predictor |-> InitPredictor, step_index |-> InitStepIndex,
     decoded |-> <<>>, byte_index |-> 0, i |-> 0]

\* midi_to_buzzer_c and compare_audio not running
MidiIdle == [at |-> "idle"]

CmpIdle == [at |-> "idle"]

RECURSIVE SeqsUpTo(_, _)
SeqsUpTo(S, n) ==
    IF n = 0 THEN {<<>>}
    ELSE LET shorter == SeqsUpTo(S, n - 1)
         IN  shorter \cup {Append(s, x) : s \in {t \in shorter : Len(t) = n - 1}, x \in S}

Init ==
    /\ pc = "encode"
    /\ audio_data \in SeqsUpTo(Samples, MaxLen)
    /\ pos = 0
    /\ enc = EncInit
    /\ trace = <<>>
    /\ raw = <<>>
    /\ dec = DecInit
    /\ dtrace = <<>>
    /\ pcm_data = <<>>
    /\ calls = <<>>
    /\ midi = MidiIdle
    /\ cmp = CmpIdle

----------------------------------------------------------------------------
(* Spec: encode, write the .raw file, decode it *)

\* one iteration of `for sample in audio_data`
EncodeSample ==
    /\ pc = "encode"
    /\ pos < Len(audio_data)
    /\ enc' = EncIteration(enc, audio_data[pos + 1])
    /\ trace' = Append(trace, EncLocals(enc, audio_data[pos + 1]))
    /\ pos' = pos + 1
    /\ UNCHANGED <<pc, audio_data, raw, dec, dtrace, pcm_data>>
    /\ UNCHANGED <<calls, midi, cmp>>

\* the loop is exhausted: flush, return, and main writes the bytes to the .raw file
EncodeReturn ==
    /\ pc = "encode"
    /\ pos = Len(audio_data)
    /\ raw' = EncResult(enc)
    /\ pc' = "decode"
    /\ UNCHANGED <<audio_data, pos, enc, trace, dec, dtrace, pcm_data>>
    /\ UNCHANGED <<calls, midi, cmp>>

\* one iteration of `for i in range(4)` on the current byte of the .raw file
DecodeCode ==
    /\ pc = "decode"
    /\ dec.byte_index < Len(raw)
    /\ dec' = DecIteration(dec, raw)
    /\ dtrace' = Append(dtrace,
                        DecLocals(dec, DecExtract(At(raw, dec.byte_index), DecShift(dec.i))))
    /\ UNCHANGED <<pc, audio_data, pos, enc, trace, raw, pcm_data>>
    /\ UNCHANGED <<calls, midi, cmp>>

\* the bytes are exhausted: return, and main writes every decoded sample as a frame
DecodeReturn ==
    /\ pc = "decode"
    /\ dec.byte_index = Len(raw)
    /\ pcm_data' = dec.decoded
    /\ pc' = "done"
    /\ UNCHANGED <<audio_data, pos, enc, trace, raw, dec, dtrace>>
    /\ UNCHANGED <<calls, midi, cmp>>

Next == EncodeSample \/ EncodeReturn \/ DecodeCode \/ DecodeReturn

Spec == Init /\ [][Next]_vars

----------------------------------------------------------------------------
(* SpecStream: the quantizer over an unbounded input.  Either the encoder    *)
(* consumes samples or the decoder consumes codes; predictor and step_index  *)
(* advance as in the loop bodies, the history keeps the last iteration only  *)
(* and the output buffers are not accumulated.  The encoder's stream is      *)
(* explored past a sample only if that sample is one of DriveSamples.        *)

InitStream ==
    /\ pc \in {"enc_stream", "dec_stream"}
    /\ audio_data = <<>>
    /\ pos = 0
    /\ enc = EncInit
    /\ trace = <<>>
    /\ raw = <<>>
    /\ dec = DecInit
    /\ dtrace = <<>>
    /\ pcm_data = <<>>
    /\ calls = <<>>
    /\ midi = MidiIdle
    /\ cmp = CmpIdle

\* the encoder's loop body on sample s
EncFeed(s) ==
    /\ enc' = EncAdvance(enc, s)
    /\ trace' = <<EncLocals(enc, s)>>
    /\ UNCHANGED <<pc, audio_data, pos, raw, dec, dtrace, pcm_data>>
    /\ UNCHANGED <<calls, midi, cmp>>

\* the decoder's inner loop body on code c
DecFeed(c) ==
    /\ dec' = DecAdvance(dec, c)
    /\ dtrace' = <<DecLocals(dec, c)>>
    /\ UNCHANGED <<pc, audio_data, pos, enc, trace, raw, pcm_data>>
    /\ UNCHANGED <<calls, midi, cmp>>

StreamEncode ==
    /\ pc = "enc_stream"
    /\ \A k \in 1..Len(trace) : trace[k].sample \in DriveSamples
    /\ \E s \in SampleValues : EncFeed(s)

StreamDecode ==
    /\ pc = "dec_stream"
    /\ \E c \in Codes : DecFeed(c)

NextStream == StreamEncode \/ StreamDecode

SpecStream == InitStream /\ [][NextStream]_vars

----------------------------------------------------------------------------
(* SpecSat: an input that is free at first and from some point on keeps      *)
(* driving the predictor upwards: the encoder is fed the constant 255, the   *)
(* decoder only the positive codes 1 and 3.  The loops run for as long as    *)
(* there is input, hence the weak fairness.                                  *)

PositiveCodes == {1, 3}

InitSat ==
    /\ pc \in {"enc_free", "dec_free"}
    /\ audio_data = <<>>
    /\ pos = 0
    /\ enc = EncInit
    /\ trace = <<>>
    /\ raw = <<>>
    /\ dec = DecInit
    /\ dtrace = <<>>
    /\ pcm_data = <<>>
    /\ calls = <<>>
    /\ midi = MidiIdle
    /\ cmp = CmpIdle

SatEncodeFree ==
    /\ pc = "enc_free"
    /\ \E s \in DriveSamples : EncFeed(s)

SatEncodeBegin ==
    /\ pc = "enc_free"
    /\ pc' = "enc_sat"
    /\ UNCHANGED <<audio_data, pos, enc, trace, raw, dec, dtrace, pcm_data>>
    /\ UNCHANGED <<calls, midi, cmp>>

SatEncode ==
    /\ pc = "enc_sat"
    /\ EncFeed(255)

SatDecodeFree ==
    /\ pc = "dec_free"
    /\ \E c \in Codes : DecFeed(c)

SatDecodeBegin ==
    /\ pc = "dec_free"
    /\ pc' = "dec_sat"
    /\ UNCHANGED <<audio_data, pos, enc, trace, raw, dec, dtrace, pcm_data>>
    /\ UNCHANGED <<calls, midi, cmp>>

SatDecode ==
    /\ pc = "dec_sat"
    /\ \E c \in PositiveCodes : DecFeed(c)

NextSat ==
    \/ SatEncodeFree \/ SatEncodeBegin \/ SatEncode
    \/ SatDecodeFree \/ SatDecodeBegin \/ SatDecode

SpecSat == InitSat /\ [][NextSat]_vars /\ WF_vars(NextSat)

----------------------------------------------------------------------------
(* SpecConst: the encoder on an unbounded input whose samples are all equal. *)
(* The first sample is any value, every later one repeats it.  The loop      *)
(* runs for as long as there is input, hence the weak fairness.              *)

InitConst ==
    /\ pc = "enc_const"
    /\ audio_data = <<>>
    /\ pos = 0
    /\ enc = EncInit
    /\ trace = <<>>
    /\ raw = <<>>
    /\ dec = DecInit
    /\ dtrace = <<>>
    /\ pcm_data = <<>>
    /\ calls = <<>>
    /\ midi = MidiIdle
    /\ cmp = CmpIdle

ConstEncode ==
    /\ pc = "enc_const"
    /\ \E s \in SampleValues :
           /\ \A k \in 1..Len(trace) : trace[k].sample = s
           /\ EncFeed(s)

NextConst == ConstEncode

SpecConst == InitConst /\ [][NextConst]_vars /\ WF_vars(NextConst)

----------------------------------------------------------------------------
(* SpecCalls: up to MaxCalls calls of encode_2bit_adpcm and                  *)
(* decode_2bit_adpcm, one after the other in any order.  The locals of a     *)
(* finished call stay in enc and dec until the next call assigns them anew.  *)

\* number of calls in one run
MaxCalls == 3

\* arguments of the calls
EncArgs == {<<>>, <<0>>, <<255>>, <<255, 0>>, <<128, 128, 128, 128, 128>>}

DecArgs == {<<>>, <<0>>, <<255>>, <<27, 64>>}

\* faulty variant: predictor and step_index kept from the previous call
EncEntry_KeepsState(e) ==
    [EncInit EXCEPT !.predictor = e.predictor, !.step_index = e.step_index]

\* the assignments at the top of encode_2bit_adpcm; e is what the previous call left
EncEntry(e) == EncInit

\* the assignments at the top of decode_2bit_adpcm; d is what the previous call left
DecEntry(d) == DecInit

InitCalls ==
    /\ pc = "idle"
    /\ audio_data = <<>>
    /\ pos = 0
    /\ enc = EncInit
    /\ trace = <<>>
    /\ raw = <<>>
    /\ dec = DecInit
    /\ dtrace = <<>>
    /\ pcm_data = <<>>
    /\ calls = <<>>
    /\ midi = MidiIdle
    /\ cmp = CmpIdle

CallEncode ==
    /\ pc = "idle"
    /\ Len(calls) < MaxCalls
    /\ \E a \in EncArgs : audio_data' = a
    /\ pos' = 0
    /\ enc' = EncEntry(enc)
    /\ trace' = <<>>
    /\ pc' = "encode"
    /\ UNCHANGED <<raw, dec, dtrace, pcm_data, calls, midi, cmp>>

CallEncodeReturn ==
    /\ pc = "encode"
    /\ pos = Len(audio_data)
    /\ calls' = Append(calls, [fn |-> "encode", arg |-> audio_data, ret |-> EncResult(enc)])
    /\ pc' = "idle"
    /\ UNCHANGED <<audio_data, pos, enc, trace, raw, dec, dtrace, pcm_data, midi, cmp>>

CallDecode ==
    /\ pc = "idle"
    /\ Len(calls) < MaxCalls
    /\ \E a \in DecArgs : raw' = a
    /\ dec' = DecEntry(dec)
    /\ dtrace' = <<>>
    /\ pc' = "decode"
    /\ UNCHANGED <<audio_data, pos, enc, trace, pcm_data, calls, midi, cmp>>

CallDecodeReturn ==
    /\ pc = "decode"
    /\ dec.byte_index = Len(raw)
    /\ calls' = Append(calls, [fn |-> "decode", arg |-> raw, ret |-> dec.decoded])
    /\ pc' = "idle"
    /\ UNCHANGED <<audio_data, pos, enc, trace, raw, dec, dtrace, pcm_data, midi, cmp>>

NextCalls ==
    \/ CallEncode \/ EncodeSample \/ CallEncodeReturn
    \/ CallDecode \/ DecodeCode \/ CallDecodeReturn

SpecCalls == InitCalls /\ [][NextCalls]_vars

----------------------------------------------------------------------------
(* SpecMidi: midi_to_buzzer_c main from the collected note list on: sort,    *)
(* convert ticks to time, build the rows, emit.  Times are kept in           *)
(* microseconds; the tempo maps and ticks-per-beat values used make every    *)
(* tick an exact number of microseconds, so the float arithmetic and the     *)
(* rounding of the code are exact.                                           *)

\* longest note list
MaxNotes == 3

\* notes (start_tick, end_tick, pitch) the lists are built from
NoteChoices ==
    {<<0, 4, 69>>, <<1, 3, 60>>, <<6, 7, 69>>, <<4, 6, 81>>, <<0, 1, 60>>, <<2, 3, 60>>}

\* mid.division
TicksPerBeatChoices == {4}

DEFAULT_TEMPO == 500000

\* results of build_tempo_map: (tick, microseconds per beat), sorted by tick
TempoMaps ==
    {<<<<0, DEFAULT_TEMPO>>>>,
     <<<<0, DEFAULT_TEMPO>>, <<2, 250000>>>>,
     <<<<0, DEFAULT_TEMPO>>, <<0, 1000000>>>>}

\* int(round(n / d)) for n >= 0, d > 0
RoundDiv(n, d) == (2 * n + d) \div (2 * d)

\* the loop of ticks_to_seconds from index i on; total is in microseconds * ticks_per_beat
RECURSIVE TempoScan(_, _, _, _, _, _)
TempoScan(ticks, tempo_events, i, total, last_tick, last_tempo) ==
    IF i >= Len(tempo_events) \/ At(tempo_events, i)[1] >= ticks
    THEN IF last_tick < ticks
         THEN total + (ticks - last_tick) * last_tempo
         ELSE total
    ELSE LET t_tick  == At(tempo_events, i)[1]
             t_tempo == At(tempo_events, i)[2]
             seg     == Min(ticks, t_tick) - last_tick
         IN  IF seg > 0
             THEN TempoScan(ticks, tempo_events, i + 1,
                            total + seg * last_tempo, last_tick + seg, t_tempo)
             ELSE TempoScan(ticks, tempo_events, i + 1, total, last_tick, t_tempo)

\* ticks_to_seconds, times ticks_per_beat * 1_000_000
TicksToScaled(ticks, tempo_events) ==
    TempoScan(ticks, tempo_events, 1, 0, 0, At(tempo_events, 0)[2])

\* max(1, int(round(midi_to_freq(pitch)))) for the pitches of NoteChoices
FreqHz(pitch) ==
    CASE pitch = 60 -> 262
      [] pitch = 69 -> 440
      [] pitch = 81 -> 880

\* notes.sort(key=lambda x: x[0]): stable, by start tick
RECURSIVE InsertByStart(_, _)
InsertByStart(sorted, note) ==
    IF sorted = <<>> THEN <<note>>
    ELSE IF sorted[Len(sorted)][1] <= note[1] THEN Append(sorted, note)
    ELSE Append(InsertByStart(SubSeq(sorted, 1, Len(sorted) - 1), note), sorted[Len(sorted)])

RECURSIVE SortByStart(_)
SortByStart(notes) ==
    IF notes = <<>> THEN <<>>
    ELSE InsertByStart(SortByStart(SubSeq(notes, 1, Len(notes) - 1)), notes[Len(notes)])

\* a row of `rows`: start and duration in microseconds, frequency
NoteRow(note, tpb, tempo_events) ==
    LET st_scaled == TicksToScaled(note[1], tempo_events)
        en_scaled == TicksToScaled(note[2], tempo_events)
        dur_scaled == Max(0, en_scaled - st_scaled)
    IN  [st_us |-> RoundDiv(st_scaled, tpb), dur_us |-> RoundDiv(dur_scaled, tpb),
         freq_hz |-> FreqHz(note[3])]

\* a row of `out_rows` and the new prev_end_us
OutRow(row, prev_end_us) ==
    LET period_us == Max(1, RoundDiv(1000000, row.freq_hz))
        delay_us  == Max(0, row.st_us - prev_end_us)
    IN  [delay_us |-> delay_us, period_us |-> period_us, duration_us |-> row.dur_us]

NextPrevEnd(row) == row.st_us + row.dur_us

\* note lists the note_on / note_off pairing can produce: appended in the
\* order of their note_off, and first on, first off within a pitch
Collectable(notes) ==
    \A i, j \in 1..Len(notes) :
        i < j => /\ notes[i][2] <= notes[j][2]
                 /\ notes[i][3] = notes[j][3] => notes[i][1] <= notes[j][1]

InitMidi ==
    /\ pc = "midi"
    /\ audio_data = <<>>
    /\ pos = 0
    /\ enc = EncInit
    /\ trace = <<>>
    /\ raw = <<>>
    /\ dec = DecInit
    /\ dtrace = <<>>
    /\ pcm_data = <<>>
    /\ calls = <<>>
    /\ cmp = CmpIdle
    /\ \E notes \in {n \in SeqsUpTo(NoteChoices, MaxNotes) : Collectable(n)},
          tpb \in TicksPerBeatChoices, tempos \in TempoMaps :
           midi = [at |-> "sort", tpb |-> tpb, tempos |-> tempos, notes |-> notes,
                   rows |-> <<>>, out_rows |-> <<>>, prev_end_us |-> 0, written |-> FALSE]

MidiOnly == UNCHANGED <<pc, audio_data, pos, enc, trace, raw, dec, dtrace, pcm_data, calls, cmp>>

\* notes.sort(...)
MidiSort ==
    /\ midi.at = "sort"
    /\ midi' = [midi EXCEPT !.notes = SortByStart(midi.notes), !.at = "convert"]
    /\ MidiOnly

\* one iteration of `for st, en, pitch in notes`
MidiConvert ==
    /\ midi.at = "convert"
    /\ Len(midi.rows) < Len(midi.notes)
    /\ midi' = [midi EXCEPT !.rows =
                   Append(midi.rows,
                          NoteRow(midi.notes[Len(midi.rows) + 1], midi.tpb, midi.tempos))]
    /\ MidiOnly

\* that loop is exhausted; prev_end_us = 0
MidiConverted ==
    /\ midi.at = "convert"
    /\ Len(midi.rows) = Len(midi.notes)
    /\ midi' = [midi EXCEPT !.at = "rows", !.prev_end_us = 0]
    /\ MidiOnly

\* one iteration of `for st_s, dur_s, freq in rows`
MidiRow ==
    /\ midi.at = "rows"
    /\ Len(midi.out_rows) < Len(midi.rows)
    /\ LET row == midi.rows[Len(midi.out_rows) + 1]
       IN  midi' = [midi EXCEPT !.out_rows = Append(midi.out_rows, OutRow(row, midi.prev_end_us)),
                                !.prev_end_us = NextPrevEnd(row)]
    /\ MidiOnly

\* that loop is exhausted: the C table is written
MidiEmit ==
    /\ midi.at = "rows"
    /\ Len(midi.out_rows) = Len(midi.rows)
    /\ midi' = [midi EXCEPT !.at = "done", !.written = TRUE]
    /\ MidiOnly

NextMidi == MidiSort \/ MidiConvert \/ MidiConverted \/ MidiRow \/ MidiEmit

SpecMidi == InitMidi /\ [][NextMidi]_vars

----------------------------------------------------------------------------
(* SpecCompare: one run of compare_audio.main on two loaded signals.  cmp     *)
(* holds main's locals; the floating point quantities are kept exactly: mse   *)
(* and noise_power as the sums whose means they are, psnr as the band its     *)
(* value falls in, which is all the run's control flow reads.                 *)

MaxFrames == 2

Rates == {8000, 16000}

Wrap16(x) == ((x + 32768) % 65536) - 32768

RECURSIVE SumSeq(_)
SumSeq(s) == IF s = <<>> THEN 0 ELSE Head(s) + SumSeq(Tail(s))

\* diff = original.astype(np.int16) - decoded.astype(np.int16)
Diff(original, decoded) ==
    [k \in 1..Len(original) |-> Wrap16(original[k] - decoded[k])]

\* the sum behind np.mean(diff**2): the squares of an int16 array are int16
MseSum(diff) == SumSeq([k \in 1..Len(diff) |-> Wrap16(diff[k] * diff[k])])

\* the sum behind np.mean(diff.astype(np.float64)**2)
NoisePowerSum(diff) == SumSeq([k \in 1..Len(diff) |-> diff[k] * diff[k]])

\* psnr = 20 * log10(255 / sqrt(sum / n)) for sum > 0, by the comparisons
\* made on it: psnr >= 30 iff 1000 * sum <= 255^2 * n, psnr >= 20 iff
\* 100 * sum <= 255^2 * n
Psnr(sum, n) ==
    IF 1000 * sum <= 65025 * n THEN "ge30"
    ELSE IF 100 * sum <= 65025 * n THEN "ge20"
    ELSE "lt20"

DifferenceFiles ==
    {"difference_raw.wav", "difference_absolute.wav",
     "difference_amplified_10x.wav"}

\* what the with-block has written before it formats psnr
StatsSections(mse, noise_power) ==
    <<"header", "signal properties",
      IF mse > 0 THEN "psnr" ELSE "psnr infinite (perfect)">>
    \o (IF noise_power > 0 THEN <<"snr">> ELSE <<>>)
    \o <<"mae rmse", "error distribution", "interpretation">>

Verdict(psnr) ==
    CASE psnr = "ge30" -> "GOOD"
      [] psnr = "ge20" -> "ACCEPTABLE"
      [] OTHER -> "NEEDS IMPROVEMENT"

InitCompare ==
    /\ pc = "compare"
    /\ audio_data = <<>>
    /\ pos = 0
    /\ enc = EncInit
    /\ trace = <<>>
    /\ raw = <<>>
    /\ dec = DecInit
    /\ dtrace = <<>>
    /\ pcm_data = <<>>
    /\ calls = <<>>
    /\ midi = MidiIdle
    /\ \E original \in SeqsUpTo(Samples, MaxFrames),
          decoded \in SeqsUpTo(Samples, MaxFrames),
          rate1 \in Rates, rate2 \in Rates :
           cmp = [at |-> "loaded", original |-> original, decoded |-> decoded,
                  rate1 |-> rate1, rate2 |-> rate2, diff |-> <<>>,
                  mse |-> 0, psnr |-> "unbound", psnr_line |-> "none",
                  noise_power |-> 0, snr |-> "unbound",
                  files |-> {}, stats_file |-> <<>>, status |-> "running"]

CompareOnly ==
    UNCHANGED <<pc, audio_data, pos, enc, trace, raw, dec, dtrace, pcm_data,
                calls, midi>>

CmpExit(status) == [cmp EXCEPT !.at = "exit", !.status = status]

\* the rate and length checks, then diff
CmpCheck ==
    /\ pc = "compare"
    /\ cmp.at = "loaded"
    /\ cmp' = IF cmp.rate1 # cmp.rate2 THEN CmpExit("exit 1")
              ELSE IF Len(cmp.original) # Len(cmp.decoded) THEN CmpExit("exit 1")
              ELSE [cmp EXCEPT !.at = "statistics",
                               !.diff = Diff(cmp.original, cmp.decoded)]
    /\ CompareOnly

\* the printed statistics: min() of an empty array raises
CmpStatistics ==
    /\ pc = "compare"
    /\ cmp.at = "statistics"
    /\ cmp' = IF cmp.original = <<>> THEN CmpExit("ValueError")
              ELSE [cmp EXCEPT !.at = "psnr"]
    /\ CompareOnly

CmpPsnr ==
    /\ pc = "compare"
    /\ cmp.at = "psnr"
    /\ LET mse == MseSum(cmp.diff)
       IN  cmp' = IF mse > 0
                  THEN [cmp EXCEPT !.at = "snr", !.mse = mse,
                                   !.psnr = Psnr(mse, Len(cmp.diff)),
                                   !.psnr_line = "value"]
                  ELSE [cmp EXCEPT !.at = "snr", !.mse = mse,
                                   !.psnr_line = "infinite (perfect match)"]
    /\ CompareOnly

CmpSnr ==
    /\ pc = "compare"
    /\ cmp.at = "snr"
    /\ LET noise_power == NoisePowerSum(cmp.diff)
       IN  cmp' = [cmp EXCEPT !.at = "difference files",
                              !.noise_power = noise_power,
                              !.snr = IF noise_power > 0 THEN "bound"
                                      ELSE "unbound"]
    /\ CompareOnly

CmpDifferenceFiles ==
    /\ pc = "compare"
    /\ cmp.at = "difference files"
    /\ cmp' = [cmp EXCEPT !.at = "stats file", !.files = DifferenceFiles]
    /\ CompareOnly

\* comparison_stats.txt up to the sentence that formats psnr
CmpStatsFile ==
    /\ pc = "compare"
    /\ cmp.at = "stats file"
    /\ cmp' = [cmp EXCEPT !.at = "verdict",
                          !.files = @ \cup {"comparison_stats.txt"},
                          !.stats_file = StatsSections(cmp.mse, cmp.noise_power)]
    /\ CompareOnly

\* "Your PSNR of {psnr:.2f} dB is ...": reads psnr whatever branch bound it
CmpVerdict ==
    /\ pc = "compare"
    /\ cmp.at = "verdict"
    /\ cmp' = IF cmp.psnr = "unbound" THEN CmpExit("UnboundLocalError")
              ELSE [cmp EXCEPT !.at = "saved",
                               !.stats_file = Append(@, Verdict(cmp.psnr))]
    /\ CompareOnly

CmpDone ==
    /\ pc = "compare"
    /\ cmp.at = "saved"
    /\ cmp' = CmpExit("done")
    /\ CompareOnly

NextCompare ==
    \/ CmpCheck
    \/ CmpStatistics
    \/ CmpPsnr
    \/ CmpSnr
    \/ CmpDifferenceFiles
    \/ CmpStatsFile
    \/ CmpVerdict
    \/ CmpDone

SpecCompare == InitCompare /\ [][NextCompare]_vars

----------------------------------------------------------------------------
(* Properties of Spec *)

Silence4 == <<128, 128, 128, 128>>

\* the code of sample n (1-based) of audio_data, 0 where there is no such sample
CodeOfSample(n) == IF n <= Len(trace) THEN trace[n].code ELSE 0

\* C1 as stated: the first len(S) samples of decode(encode(S)) equal S, sample
\* for sample.
C1_RoundTripExact ==
    pc = "done" =>
        \A k \in 1..Len(audio_data) : pcm_data[k] = audio_data[k]

\* C1 as amended: the round trip is lossy. Decoded sample k equals S[k] when
\* the difference diff between S[k] and the predictor was one of the four
\* deltas -2*step, -step, +step, +2*step, and otherwise differs from S[k] by
\* at most max(step, |diff| - 2*step), step and diff being the encoder's at
\* sample k.
C1_RoundTripWithin ==
    pc = "done" =>
        \A k \in 1..Len(audio_data) :
            LET t   == trace[k]
                err == Abs(pcm_data[k] - audio_data[k])
            IN  /\ t.diff \in {0 - 2 * t.step, 0 - t.step, t.step, 2 * t.step} => err = 0
                /\ err <= Max(t.step, Abs(t.diff) - 2 * t.step)

C1_Witness ==
    /\ pc = "done"
    /\ \E k \in 1..Len(audio_data) : pcm_data[k] # audio_data[k]
    /\ \E k \in 1..Len(audio_data) :
           /\ trace[k].diff = 0 - trace[k].step
           /\ pcm_data[k] = audio_data[k]
    /\ \E k \in 1..Len(audio_data) : Abs(trace[k].diff) > 3 * trace[k].step

\* C2 as stated: encoding [128,128,128,128] gives the single byte 0x00, with
\* predictor 128 and step_index 0 after every sample.
C2_SilenceIsZeroByte ==
    audio_data = Silence4 =>
        /\ \A k \in 1..Len(trace) : trace[k].predictor = 128 /\ trace[k].step_index = 0
        /\ pc # "encode" => raw = <<0>>

\* C2 as amended: encoding [128,128,128,128] gives the single byte 0x44 (codes
\* 1,0,1,0); the predictor is 130, 128, 130, 128 after the four samples and
\* step_index is 0 after every sample.
C2_SilenceIs0x44 ==
    audio_data = Silence4 =>
        /\ \A k \in 1..Len(trace) :
               /\ trace[k].predictor = IF k % 2 = 1 THEN 130 ELSE 128
               /\ trace[k].step_index = 0
        /\ pc # "encode" => raw = <<68>>

C2_Witness == audio_data = Silence4 /\ pc = "done" /\ Len(raw) = 1

\* C5: decoding the bytes of n encoded samples yields exactly n samples, the
\* original sample count, also when n is not a multiple of 4.
C5_DecodedLengthIsSampleCount ==
    pc = "done" => Len(pcm_data) = Len(audio_data)

\* C6: the encoder returns exactly ceil(n/4) bytes for n samples; while it
\* runs it has appended one byte per complete group of 4 consumed samples, so
\* the empty sequence gives no byte and no byte stands for an empty group.
C6_EncodedLength ==
    /\ Len(enc.encoded) = pos \div 4
    /\ pc # "encode" => Len(raw) = (Len(audio_data) + 3) \div 4

C6_Witness ==
    /\ pc = "decode"
    /\ Len(audio_data) % 4 = 1
    /\ Len(audio_data) > 4
    /\ Len(raw) = 2

\* C7: after the decoder has consumed the k-th code of the encoder's output,
\* k <= len(S), its predictor and step_index equal the encoder's after S[k]
\* and the k-th decoded sample equals the encoder's predictor after S[k].
C7_LockStep ==
    \A k \in 1..Min(Len(dtrace), Len(audio_data)) :
        /\ dtrace[k].predictor = trace[k].predictor
        /\ dtrace[k].step_index = trace[k].step_index
        /\ dec.decoded[k] = trace[k].predictor

C7_Witness ==
    /\ pc = "done"
    /\ Len(audio_data) >= 4
    /\ {trace[k].code : k \in 1..Len(trace)} = Codes
    /\ \E k \in 1..Len(trace) : trace[k].step_index >= 4

\* C8: byte k of the encoder's output holds the codes of samples 4k..4k+3
\* from the top bit pair down, a bit pair with no sample is 00, and the
\* decoder reads the codes back in that order.
C8_PackedLayout ==
    /\ pc # "encode" =>
           \A b \in 1..Len(raw) :
               raw[b] = CodeOfSample(4 * b - 3) * 64 + CodeOfSample(4 * b - 2) * 16
                        + CodeOfSample(4 * b - 1) * 4 + CodeOfSample(4 * b)
    /\ \A n \in 1..Len(dtrace) : dtrace[n].code = CodeOfSample(n)

C8_Witness ==
    /\ pc = "done"
    /\ Len(audio_data) % 4 = 1
    /\ Len(raw) = 2
    /\ Cardinality({trace[k].code : k \in 1..4}) = 4
    /\ trace[Len(trace)].code # 0

----------------------------------------------------------------------------
(* Properties of SpecStream *)

\* the predictor the encoder held before its last iteration
EncPrevPredictor == trace[1].sample - trace[1].diff

\* C3: the delta of the code the encoder chose is at least as near to diff as
\* each of the four deltas -2*step, -step, +step, +2*step.
C3_NearestDelta ==
    (pc = "enc_stream" /\ trace # <<>>) =>
        LET t == trace[1]
        IN  \A d \in {0 - 2 * t.step, 0 - t.step, t.step, 2 * t.step} :
                Abs(t.diff - t.delta) <= Abs(t.diff - d)

\* C4: after every processed sample and after every processed code, predictor
\* is in 0..255 and step_index is in 0..15, in the encoder and in the decoder.
C4_BoundedState ==
    /\ enc.predictor \in 0..255
    /\ enc.step_index \in 0..15
    /\ dec.predictor \in 0..255
    /\ dec.step_index \in 0..15
    /\ \A k \in 1..Len(trace) :
           trace[k].predictor \in 0..255 /\ trace[k].step_index \in 0..15
    /\ \A k \in 1..Len(dtrace) :
           dtrace[k].predictor \in 0..255 /\ dtrace[k].step_index \in 0..15

\* the encoder overshoots 255 from step index 15 and both clamps act
C4_Witness ==
    /\ pc = "enc_stream"
    /\ trace # <<>>
    /\ trace[1].step = 80
    /\ EncPrevPredictor + trace[1].delta > 255
    /\ enc.predictor = 255
    /\ enc.step_index = 15

Clamp(x, lo, hi) == IF x < lo THEN lo ELSE IF x > hi THEN hi ELSE x

\* the state the transition rule gives from predictor p and step index i on a code
RuleState(p, i, code) ==
    LET s == step_table[i + 1]
        d == CASE code = 0 -> 0 - s
               [] code = 1 -> s
               [] code = 2 -> 0 - 2 * s
               [] code = 3 -> 2 * s
    IN  [predictor  |-> Clamp(p + d, 0, 255),
         step_index |-> Clamp(i + (IF code \in {0, 1} THEN 0 - 1 ELSE 2), 0, 15)]

\* C13: one sample in the encoder and one code in the decoder take predictor
\* p and step_index i to clamp(p + d, 0, 255) and clamp(i - 1, 0, 15) (codes
\* 0, 1) or clamp(i + 2, 0, 15) (codes 2, 3), d being -s, +s, -2s, +2s for codes
\* 0..3 and s = step_table[i] as read before the update; each step is one
\* such change.
C13_Transition ==
    /\ [][pc = "enc_stream" =>
            \A k \in 1..Len(trace') :
                LET r == RuleState(enc.predictor, enc.step_index, trace'[k].code)
                IN  /\ enc'.predictor = r.predictor
                    /\ enc'.step_index = r.step_index
                    /\ trace'[k].step = step_table[enc.step_index + 1]]_vars
    /\ [][pc = "dec_stream" =>
            \A k \in 1..Len(dtrace') :
                LET r == RuleState(dec.predictor, dec.step_index, dtrace'[k].code)
                IN  /\ dec'.predictor = r.predictor
                    /\ dec'.step_index = r.step_index
                    /\ dtrace'[k].step = step_table[dec.step_index + 1]]_vars

\* the decoder on code 2 at step 63: predictor clamped to 0, step_index to 15
C13_Witness ==
    /\ pc = "dec_stream"
    /\ dtrace # <<>>
    /\ dtrace[1].code = 2
    /\ dtrace[1].step = 63
    /\ dec.predictor = 0
    /\ dec.step_index = 15

----------------------------------------------------------------------------
(* Properties of SpecSat *)

\* C10: while only positive codes follow, the predictor never decreases and
\* never leaves 0..255, it reaches 255, and once at 255 it stays there; the
\* encoder fed the constant 255 emits positive codes only.
C10_Saturation ==
    /\ [][(pc = "enc_sat" /\ pc' = "enc_sat") =>
            /\ \A k \in 1..Len(trace') : trace'[k].code \in PositiveCodes
            /\ enc'.predictor \in 0..255
            /\ enc'.predictor >= enc.predictor
            /\ enc.predictor = 255 => enc'.predictor = 255]_vars
    /\ [][(pc = "dec_sat" /\ pc' = "dec_sat") =>
            /\ dec'.predictor \in 0..255
            /\ dec'.predictor >= dec.predictor
            /\ dec.predictor = 255 => dec'.predictor = 255]_vars
    /\ (pc = "enc_sat") ~> (enc.predictor = 255)
    /\ (pc = "dec_sat") ~> (dec.predictor = 255)

\* the encoder, fed 255, sits at 255 with code 1 after having climbed there
C10_Witness ==
    /\ pc = "enc_sat"
    /\ trace # <<>>
    /\ trace[1].sample = 255
    /\ trace[1].diff = 0
    /\ trace[1].code = 1
    /\ enc.predictor = 255
    /\ enc.step_index = 0

----------------------------------------------------------------------------
(* Properties of SpecCalls *)

\* C11: every call of either function starts from predictor 128 and
\* step_index 0, whatever the calls before it were, and two calls of the same
\* function on the same input return the same output.
C11_Determinism ==
    /\ (pc = "encode" /\ pos = 0) => (enc.predictor = 128 /\ enc.step_index = 0)
    /\ (pc = "decode" /\ dtrace = <<>>) => (dec.predictor = 128 /\ dec.step_index = 0)
    /\ \A i, j \in 1..Len(calls) :
           (calls[i].fn = calls[j].fn /\ calls[i].arg = calls[j].arg)
               => calls[i].ret = calls[j].ret

\* the same encoder call before and after a different call that moved the state
C11_Witness ==
    /\ Len(calls) = 3
    /\ calls[1].fn = "encode"
    /\ calls[3].fn = "encode"
    /\ calls[2].fn = "encode"
    /\ Len(calls[1].arg) = 5
    /\ calls[3].arg = calls[1].arg
    /\ calls[2].arg = <<255, 0>>
    /\ calls[3].ret = calls[1].ret
    /\ enc.predictor # 128

----------------------------------------------------------------------------
(* Properties of SpecMidi *)

\* the end of the note emitted before row k: its start plus its duration_us
MidiPrevEnd(k) ==
    IF k = 1 THEN 0 ELSE midi.rows[k - 1].st_us + midi.out_rows[k - 1].duration_us

\* the time at which a player that waits delay_us and then sounds for
\* duration_us, row after row from time 0, starts the note of row k
RECURSIVE MidiPlayStart(_)
MidiPlayStart(k) ==
    IF k = 1 THEN midi.out_rows[1].delay_us
    ELSE MidiPlayStart(k - 1) + midi.out_rows[k - 1].duration_us + midi.out_rows[k].delay_us

\* C12: in every emitted row delay_us is the time from the end of the
\* previously emitted note to the start of this note, and a player of the
\* rows starts every note at its start time in the track.
C12_NoteTiming ==
    midi.at \in {"rows", "done"} =>
        \A k \in 1..Len(midi.out_rows) :
            /\ midi.out_rows[k].delay_us = midi.rows[k].st_us - MidiPrevEnd(k)
            /\ MidiPlayStart(k) = midi.rows[k].st_us

----------------------------------------------------------------------------
(* Properties of SpecConst *)

\* the encoder sits next to the constant c it is fed, with the smallest step
ConstSettled ==
    /\ trace # <<>>
    /\ enc.step_index = 0
    /\ Abs(trace[1].sample - enc.predictor) <= 2

\* C14: fed a constant c from the initial state, the encoder eventually
\* reaches the states with step_index = 0 and |c - predictor| <= 2 and never
\* leaves them again.
C14_Convergence == <>[]ConstSettled

\* settled at the far end of the range, after steps that had to grow
C14_Witness ==
    /\ pc = "enc_const"
    /\ ConstSettled
    /\ trace[1].sample = 0
    /\ trace[1].code = 0
    /\ enc.predictor = 0

----------------------------------------------------------------------------
(* Properties of SpecCompare *)

PerfectMatch ==
    /\ pc = "compare"
    /\ cmp.rate1 = cmp.rate2
    /\ cmp.original # <<>>
    /\ cmp.original = cmp.decoded

\* C15: a run on two signals of equal rate and length with identical samples
\* (mean squared error 0) prints the "infinite (perfect match)" line and
\* then completes with comparison_stats.txt written to its last sentence; it
\* never ends on a read of a psnr that no branch assigned.
C15_PerfectMatchCompletes ==
    (PerfectMatch /\ cmp.at = "exit") =>
        /\ cmp.psnr_line = "infinite (perfect match)"
        /\ cmp.status = "done"
        /\ cmp.stats_file # <<>>
        /\ cmp.stats_file[Len(cmp.stats_file)]
               \in {"GOOD", "ACCEPTABLE", "NEEDS IMPROVEMENT"}

=============================================================================
